---------------------------- MODULE Spec2Model ----------------------------
(***************************************************************************)
(* A model of the MSL session client of src/app/utils/netflix_msl.py:      *)
(* class NetflixMSL (construction, cache load/save, handshake,             *)
(* send_message and the response decoding), with the environment it talks  *)
(* to: the wall clock, the host's UTC offset, the cache file and the       *)
(* remote endpoint.                                                        *)
(***************************************************************************)
EXTENDS Integers, Sequences, FiniteSets, TLC

VARIABLES
    now,          \* the environment's clock, epoch seconds
    tz,           \* the host's local UTC offset in seconds (datetime.now() is local)
    cache,        \* content of the file at cache_path
    phase,        \* "NoClient" | "Ready" (__init__ returned) | "Failed" (__init__ raised)
    instances,    \* number of NetflixMSL(...) constructions so far
    cache_path,   \* self.cache_path is set (truthy)
    cookies,      \* self.cookies
    seed,         \* the value random.randint gave self.message_id in __init__
    message_id,   \* self.message_id
    keys,         \* self.keys
    init_ret,     \* how the last __init__ ended
    net,          \* requests the current instance posted to the endpoint, in order
    hs_resp,      \* the response the instance's handshake request met, if it made one
    used_ids,     \* message ids the instance put in a message, in order
    calls,        \* number of send_message calls made on the current instance
    args,         \* the last send_message call: its arguments
    entry,        \* the last send_message call: self.message_id and self.keys at entry
    msg,          \* the last send_message call: the message it built, <<>> if none
    resp,         \* the last send_message call: the response it met
    decrypted,    \* the last send_message call: it reached _decrypt_payload_chunks
    ret,          \* the last send_message call: how it ended
    load_ret,       \* what the last _load_cache call on the file gave, if one was made
    saved,        \* the key materials _save_cache wrote, or began to write, to the file
    pc,           \* per concurrent caller: where its send_message call stands
    reg,          \* per concurrent caller: the arguments and locals of its call
    codec         \* one plaintext and one application datum on their way through
                  \* _encrypt / send_message and back through _decrypt_payload_chunks

vars == <<now, tz, cache, phase, instances, cache_path, cookies, seed, message_id,
          keys, init_ret, net, hs_resp, used_ids, calls, args, entry, msg, resp, decrypted, ret,
          load_ret, saved, pc, reg, codec>>

envVars    == <<now, tz>>
clientVars == <<phase, instances, cache_path, cookies, seed, message_id, keys, init_ret>>
callVars   == <<args, entry, msg, resp, decrypted, ret>>
cacheVars  == <<load_ret, saved>>
\* what the client used by one caller at a time leaves alone
threadVars == <<pc, reg>>
codecVars  == <<codec>>
auxVars    == <<cacheVars, threadVars, codecVars>>

-----------------------------------------------------------------------------
(* Bounds of the model *)

MaxInstances == 2      \* clients constructed in one run
MaxCalls     == 2      \* send_message calls per client instance
MaxCallers   == 2      \* threads calling send_message on one instance at once
MaxBlocks    == 1      \* whole cipher blocks in the plaintexts given to _encrypt
MaxKeyChars  == 47     \* characters in the strings given to _base64key_decode
MaxChunks    == 2      \* payload objects in one response text
IdBits       == 3      \* stands for the 52 of pow(2, 52): TLC's integers are 32 bits wide

(* Program constants *)

SecondsPerHour == 3600
MarginHours    == 10
BlockSize      == 16

None == "None"

\* instants the clock visits, and the UTC offsets of the host
Instants == {0, 1, 36001}
Offsets  == {0, 3600}

SymKeys == {"k1", "k2", "k3", "k4"}


-----------------------------------------------------------------------------
(* Values *)

\* Python truthiness of a cookie value / an optional string
Truthy(x) == x \notin {None, ""}

\* `a or b`
PyOr(a, b) == IF Truthy(a) THEN a ELSE b

\* The master token: an opaque object whose tokendata is base64 of a JSON
\* document with expiration (epoch seconds) and sequencenumber.  kind says
\* whether that document decodes and has the fields the client reads.
Token(e, s)    == [kind |-> "token", expiration |-> e, sequencenumber |-> s]
MalformedToken == [kind |-> "malformed", expiration |-> 0, sequencenumber |-> 0]
NoToken        == [kind |-> None, expiration |-> 0, sequencenumber |-> 0]

Expirations  == {36000, 39600}
\* the master tokens a handshake response carries
ServerTokens == {Token(39600, 2), MalformedToken}

\* class MSLKeys; obj = FALSE is Python's None in self.keys, rsa = 0 is None
MSLKeys(enc, sgn, rsa, tok) ==
    [obj |-> TRUE, encryption |-> enc, sign |-> sgn, rsa |-> rsa, mastertoken |-> tok]
NoKeys == [obj |-> FALSE, encryption |-> None, sign |-> None, rsa |-> 0,
           mastertoken |-> NoToken]

\* what send_message hands back: the document's keys, and where it came from
\* ("result": data["result"], "document": data itself, "empty": the literal {})
Value(from, doc) == [from |-> from, doc |-> doc]
NoValue == Value(None, {})

\* how a call or a construction ended
Returned(v)      == [kind |-> "return", type |-> None, msg |-> None, detail |-> None,
                     value |-> v]
RaisedWith(ty, m, d) == [kind |-> "raise", type |-> ty, msg |-> m, detail |-> d,
                         value |-> NoValue]
Raised(ty, m)    == RaisedWith(ty, m, None)
NoRet            == [kind |-> "none", type |-> None, msg |-> None, detail |-> None,
                     value |-> NoValue]

\* base64.b64encode / b64decode and RSA export_key / import_key, as wrappers.
\* A base64 text has a form: "ok" is what b64encode produces; "foreign" has
\* characters outside the alphabet around a well-padded text; "short" has a
\* number of alphabet characters that no padding completes.
B64Text(b, form) == [b64 |-> b, form |-> form]
B64Encode(b) == B64Text(b, "ok")
\* b64decode without validate=True discards the foreign characters and raises
\* binascii.Error on wrong padding only
B64DecodeOk(s) == s.form # "short"
B64Decode(s) == s.b64
ExportKey(r) == [pem |-> r]
\* RSA.import_key raises ValueError on a text that holds no key
ImportKeyOk(p) == p.pem # 0
ImportKey(p) == p.pem

CookieNames == {"NetflixId", "nflxid", "SecureNetflixId", "securenflxid"}
Jar(a, b, c, d) ==
    [n \in CookieNames |->
        CASE n = "NetflixId" -> a
          [] n = "nflxid" -> b
          [] n = "SecureNetflixId" -> c
          [] n = "securenflxid" -> d]
\* cookies_dict values given to the constructor; None is "key absent"
CookieJars ==
    { Jar("", "id", "sid", None),
      Jar(None, None, "sid", ""),
      Jar("id", "", "", None) }
NoJar == Jar(None, None, None, None)

\* random.randint(0, pow(2, 52)) is inclusive at both ends
SeedMax == 2 ^ IdBits
Seeds   == {0, SeedMax}

-----------------------------------------------------------------------------
(* The cache file *)

\* the keys of the object _save_cache dumps, in the order json.dump writes them
FieldOrder == <<"encryption", "sign", "rsa", "mastertoken">>
AllFields  == {FieldOrder[i] : i \in 1..Len(FieldOrder)}

\* a file: kind says whether it exists, opens and parses as a JSON object
\* ("nofile", "unreadable", "corrupt", "record"); fields are the keys its text holds
File(kind, fields, enc, sgn, rsa, tok) ==
    [kind |-> kind, fields |-> fields, encryption |-> enc, sign |-> sgn,
     rsa |-> rsa, mastertoken |-> tok]

NoFile      == File("nofile", {}, B64Encode(None), B64Encode(None), ExportKey(0), NoToken)
\* an empty file, or any other text json.load rejects
CorruptFile == File("corrupt", {}, B64Encode(None), B64Encode(None), ExportKey(0), NoToken)

\* json.dump(data, f) of _save_cache, written to its end
CacheRecord(k) ==
    File("record", AllFields, B64Encode(k.encryption), B64Encode(k.sign),
         ExportKey(k.rsa), k.mastertoken)

\* a private key left in the cache by an earlier process
OldRsa == MaxInstances + 1

InitialCaches ==
    {NoFile, CorruptFile}
    \cup {CacheRecord(MSLKeys("k3", "k4", OldRsa, Token(e, 1))) : e \in Expirations}

\* hours_remaining < 10, with expiration read as UTC and datetime.now() as local time
HoursRemainingSeconds(expiration, t, offset) == expiration - (t + offset)

IsStale(expiration, t, offset) ==
    HoursRemainingSeconds(expiration, t, offset) < MarginHours * SecondsPerHour

\* how the try block of _load_cache ends
Read(kind, ty, k) == [kind |-> kind, type |-> ty, keys |-> k]

\* lines 207-228: the keys, None, or the exception raised first
ReadCache(file, t, offset) ==
    IF file.kind = "unreadable" THEN Read("raise", "OSError", NoKeys)
    ELSE IF file.kind # "record" THEN Read("raise", "JSONDecodeError", NoKeys)
    ELSE IF "encryption" \notin file.fields THEN Read("raise", "KeyError", NoKeys)
    ELSE IF ~B64DecodeOk(file.encryption) THEN Read("raise", "binascii.Error", NoKeys)
    ELSE IF "sign" \notin file.fields THEN Read("raise", "KeyError", NoKeys)
    ELSE IF ~B64DecodeOk(file.sign) THEN Read("raise", "binascii.Error", NoKeys)
    ELSE IF "rsa" \notin file.fields THEN Read("raise", "KeyError", NoKeys)
    ELSE IF ~ImportKeyOk(file.rsa) THEN Read("raise", "ValueError", NoKeys)
    ELSE IF "mastertoken" \notin file.fields THEN Read("raise", "KeyError", NoKeys)
    ELSE IF file.mastertoken.kind = None THEN Read("raise", "TypeError", NoKeys)
    ELSE IF file.mastertoken.kind # "token" THEN Read("raise", "KeyError", NoKeys)
    ELSE IF IsStale(file.mastertoken.expiration, t, offset) THEN Read("return", None, NoKeys)
    ELSE Read("return", None,
              MSLKeys(B64Decode(file.encryption), B64Decode(file.sign),
                      ImportKey(file.rsa), file.mastertoken))

\* the classes derived from Exception among those the try block can raise
ExceptionTypes ==
    {"OSError", "JSONDecodeError", "KeyError", "binascii.Error", "ValueError", "TypeError"}

\* mutant: only a file that does not parse is forgiven
Caught_JsonOnly(ty) == ty = "JSONDecodeError"

\* line 229: except Exception
Caught(ty) == ty \in ExceptionTypes

\* _load_cache as a call: what it returns, or the exception that leaves it
LoadCacheCall(path, file, t, offset) ==
    IF ~path \/ file.kind = "nofile" THEN Read("return", None, NoKeys)
    ELSE LET r == ReadCache(file, t, offset)
         IN  IF r.kind = "raise" /\ Caught(r.type) THEN Read("return", None, NoKeys)
             ELSE r

\* _load_cache: the keys, or NoKeys for None
LoadCache(path, file, t, offset) == LoadCacheCall(path, file, t, offset).keys

\* mutant: the file is opened for update, its old text stays under the new
OpenForWrite_InPlace(file) == file

\* line 247: open(path, 'w') leaves an empty file
OpenForWrite(file) == CorruptFile

\* the file after json.dump has written the first n of its pieces over base:
\* n fields, and with piece Len(FieldOrder) + 1 the closing brace.  The text
\* parses once the brace is there (or where an old record still ends the file).
DumpPrefix(base, k, n) ==
    LET new     == CacheRecord(k)
        Done(f) == \E i \in 1..Len(FieldOrder) : FieldOrder[i] = f /\ i <= n
        Piece(f) == IF Done(f) THEN new[f] ELSE base[f]
    IN  File(IF n > Len(FieldOrder) \/ base.kind = "record" THEN "record" ELSE "corrupt",
             base.fields \cup {f \in AllFields : Done(f)},
             Piece("encryption"), Piece("sign"), Piece("rsa"), Piece("mastertoken"))

\* _save_cache: the new content of the file
SaveCache(path, file, k) ==
    IF ~path THEN file ELSE DumpPrefix(OpenForWrite(file), k, Len(FieldOrder) + 1)

-----------------------------------------------------------------------------
(* The handshake *)

\* A JWK "k" string: chars is its length, bytes what it decodes to once padded
Jwk(chars, bytes) == [chars |-> chars, bytes |-> bytes]
\* a key wrapped (RSA-OAEP) for the public half of key pair pub
Wrapped(pub, jwk) == [pub |-> pub, k |-> jwk]

\* the responses a handshake request can meet
HsResponse(kind, scheme, enc, mac, tok) ==
    [kind |-> kind, scheme |-> scheme, encryptionkey |-> enc, hmackey |-> mac,
     mastertoken |-> tok]
HsFailure(kind) ==
    HsResponse(kind, None, Wrapped(0, Jwk(0, None)), Wrapped(0, Jwk(0, None)), NoToken)

HandshakeResponses(rsa) ==
    \* a 16-byte key is 22 base64url characters, a 32-byte key 43
    LET enc    == Wrapped(rsa, Jwk(22, "k1"))
        mac    == Wrapped(rsa, Jwk(43, "k2"))
        other  == rsa + 1
        tok    == Token(39600, 2)
    IN  { HsFailure("transport_error"),       \* requests.RequestException
          HsFailure("errordata") }
        \cup { HsResponse("keyresponse", "ASYMMETRIC_WRAPPED", enc, mac, t) :
                  t \in ServerTokens }
        \cup { HsResponse("keyresponse", "DIFFIE_HELLMAN", enc, mac, tok),
               HsResponse("keyresponse", "ASYMMETRIC_WRAPPED",
                          Wrapped(other, enc.k), mac, tok),
               HsResponse("keyresponse", "ASYMMETRIC_WRAPPED",
                          enc, Wrapped(other, mac.k), tok),
               HsResponse("keyresponse", "ASYMMETRIC_WRAPPED",
                          enc, Wrapped(rsa, Jwk(41, "k2")), tok) }

\* mutant: one "=" is appended where two are due
Base64KeyPadding_OnePad(n) ==
    CASE n % 4 = 2 -> "="
      [] n % 4 = 3 -> "="
      [] n % 4 = 0 -> ""
      [] OTHER     -> "ValueError"

\* _base64key_decode: the padding appended for a string of n characters
Base64KeyPadding(n) ==
    CASE n % 4 = 2 -> "=="
      [] n % 4 = 3 -> "="
      [] n % 4 = 0 -> ""
      [] OTHER     -> "ValueError"

Base64KeyDecodeOk(jwk) == Base64KeyPadding(jwk.chars) # "ValueError"

\* how a _base64key_decode call ends: the padding appended, the length of
\* the text given to urlsafe_b64decode and the bytes it gave
KeyDecoded(kind, ty, pad, chars, bytes) ==
    [kind |-> kind, type |-> ty, padding |-> pad, chars |-> chars, bytes |-> bytes]
NoKeyDecoded == KeyDecoded("none", None, "", 0, None)

\* _base64key_decode(payload)
Base64KeyDecode(jwk) ==
    LET pad == Base64KeyPadding(jwk.chars)
    IN  IF pad = "ValueError"
          THEN KeyDecoded("raise", "ValueError", "", 0, None)
          ELSE KeyDecoded("return", None, pad, jwk.chars + Len(pad), jwk.bytes)

\* mutant: a key wrapped for another key pair is accepted
UnwrapOk_Any(w, rsa) == TRUE

\* cipher_rsa.decrypt succeeds on what was wrapped for this key pair
UnwrapOk(w, rsa) == w.pub = rsa

\* a payload chunk as the endpoint reads it
ChunkInfo(mid, seq, eom) == [messageid |-> mid, sequencenumber |-> seq, endofmsg |-> eom]

\* a header that carries no userauthdata entry
NoUserAuth == [scheme |-> None, netflixid |-> None, securenetflixid |-> None]

\* keyrequestdata (lines 101-110): the public half of the fresh key pair
KeyRequestData(rsa) ==
    [scheme |-> "ASYMMETRIC_WRAPPED", keypairid |-> "superKeyPair",
     mechanism |-> "JWK_RSA", publickey |-> B64Encode(rsa)]

\* header_data of _handshake (lines 116-130): no userauthdata is ever added
HandshakeHeaderData(mid, rsa) ==
    [messageid |-> mid, handshake |-> TRUE, userauthdata |-> NoUserAuth,
     keyrequestdata |-> <<KeyRequestData(rsa)>>]

\* mutant: the handshake chunk is not marked as the last one
HandshakeChunk_Open(mid) ==
    [messageid |-> mid, data |-> "", sequencenumber |-> 1, endofmsg |-> FALSE]

\* the payload chunk of _handshake (lines 144-149)
HandshakeChunk(mid) ==
    [messageid |-> mid, data |-> "", sequencenumber |-> 1, endofmsg |-> TRUE]

\* lines 133-151: the header object and the payload object, both base64 of
\* plain JSON and both with an empty signature
HandshakeMessage(mid, rsa) ==
    <<[entityauthdata |-> "NONE",
       headerdata |-> B64Encode(HandshakeHeaderData(mid, rsa)),
       signature |-> ""],
      [payload |-> B64Encode(HandshakeChunk(mid)), signature |-> ""]>>

\* the request _handshake posts, as the endpoint's log records it: the header
\* (lines 116-130) and the one payload chunk (lines 143-151) read self.message_id
HandshakeRequest(mid, rsa) ==
    LET m  == HandshakeMessage(mid, rsa)
        h  == B64Decode(m[1].headerdata)
        pl == B64Decode(m[2].payload)
    IN  [type |-> "handshake", messageid |-> h.messageid,
         payload_messageid |-> pl.messageid, mastertoken |-> NoToken,
         chunks |-> <<ChunkInfo(pl.messageid, pl.sequencenumber, pl.endofmsg)>>,
         message |-> m]

HsOutcome(k, r, file) == [keys |-> k, ret |-> r, cache |-> file]

\* mutant: the keys set so far are cached before the raise
Abort_Saving(k, r, path, file) == HsOutcome(k, r, SaveCache(path, file, k))

\* mutant: the raise is swallowed and construction returns with the keys set so far
Abort_Returning(k, r, path, file) == HsOutcome(k, Returned(NoValue), file)

\* a raise inside _handshake (lines 158-190): it ends before line 196, with
\* the keys set so far and the cache file as it was
Abort(k, r, path, file) == HsOutcome(k, r, file)

\* lines 193-199: the master token is stored, the keys are cached
Finish(k, path, file) == HsOutcome(k, Returned(NoValue), SaveCache(path, file, k))

\* _handshake, from the posted request on: the keys held when it ends, how it
\* ends and the cache file it leaves
Handshake(rsa, path, file, h) ==
    LET k0 == MSLKeys(None, None, rsa, NoToken)
        k1 == [k0 EXCEPT !.encryption = h.encryptionkey.k.bytes]
        k2 == [k1 EXCEPT !.sign = h.hmackey.k.bytes]
        k3 == [k2 EXCEPT !.mastertoken = h.mastertoken]
    IN  IF h.kind = "transport_error"
          THEN Abort(k0, Raised("Exception", "MSL handshake failed"), path, file)
        ELSE IF h.kind = "errordata"
          THEN Abort(k0, Raised("Exception", "MSL handshake error"), path, file)
        ELSE IF h.scheme # "ASYMMETRIC_WRAPPED"
          THEN Abort(k0, Raised("Exception", "Key exchange scheme mismatch"), path, file)
        ELSE IF ~UnwrapOk(h.encryptionkey, rsa)
          THEN Abort(k0, Raised("ValueError", "Incorrect decryption."), path, file)
        ELSE IF ~Base64KeyDecodeOk(h.encryptionkey.k)
          THEN Abort(k0, Raised("ValueError", "Invalid base64 string"), path, file)
        ELSE IF ~UnwrapOk(h.hmackey, rsa)
          THEN Abort(k1, Raised("ValueError", "Incorrect decryption."), path, file)
        ELSE IF ~Base64KeyDecodeOk(h.hmackey.k)
          THEN Abort(k1, Raised("ValueError", "Invalid base64 string"), path, file)
        ELSE Finish(k3, path, file)

-----------------------------------------------------------------------------
(* Codec *)

\* get_random_bytes(16): the n-th value drawn by an instance, never one drawn before
FreshIv(n) == n + 1

\* AES-CBC over the padded plaintext: readable only with the same key and iv
AesCbc(key, iv, plain) == [key |-> key, iv |-> iv, plain |-> plain]

\* _encrypt reads the token's sequencenumber for the keyid
EncryptOk(tok) == tok.kind = "token"

\* _encrypt: the JSON string {ciphertext, keyid, sha256, iv}
Encrypt(plaintext, key, iv, tok) ==
    [ciphertext |-> B64Encode(AesCbc(key, iv, plaintext)),
     keyid |-> tok.sequencenumber, sha256 |-> "AA==", iv |-> B64Encode(iv)]

\* AES.new(key, MODE_CBC, iv).decrypt + Padding.unpad + json.loads succeed
DecryptOk(envelope, key) ==
    LET ct == B64Decode(envelope.ciphertext)
    IN  ct.key = key /\ ct.iv = B64Decode(envelope.iv)

Decrypt(envelope) == B64Decode(envelope.ciphertext).plain

\* _sign: HMAC-SHA256 of text under key, base64
Sign(text, key) == B64Encode([hmac |-> key, over |-> text])

\* gzip + base64 of _gzip_compress; raw bytes have gzip = FALSE
Bytes(gz, text) == [gzip |-> gz, text |-> text]
GzipCompress(text) == B64Encode(Bytes(TRUE, text))

-----------------------------------------------------------------------------
(* The codec on bytes *)

\* a byte is 0..ByteRange - 1
ByteRange == 256

\* bitwise exclusive or of two values of n bits
RECURSIVE XorBits(_, _, _)
XorBits(a, b, n) ==
    IF n = 0 THEN 0
    ELSE ((a + b) % 2) + 2 * XorBits(a \div 2, b \div 2, n - 1)

Xor(a, b) == XorBits(a, b, 8)

\* self.keys.encryption as bytes: one AES-128 key per key name
KeyBytes(name) ==
    [i \in 1..BlockSize |->
        CASE name = "k1" -> 1
          [] name = "k2" -> (17 * i) % ByteRange
          [] name = "k3" -> ByteRange - 1
          [] OTHER       -> (i * i) % ByteRange]

\* the block cipher, a permutation of blocks chosen by the key; it stands for
\* AES, of which only that it is one matters here
EncryptBlockByte(key, pos, x) == (x + key[pos]) % ByteRange
DecryptBlockByte(key, pos, y) == (y + ByteRange - key[pos]) % ByteRange

\* the position of byte j in its block
BlockPos(j) == ((j - 1) % BlockSize) + 1

\* mutant: a plaintext that fills its last block gets no padding
Pad_NoFullBlock(bytes) ==
    IF Len(bytes) % BlockSize = 0 THEN bytes
    ELSE LET n == BlockSize - (Len(bytes) % BlockSize)
         IN  bytes \o [i \in 1..n |-> n]

\* Padding.pad(data, 16): n bytes of value n, n in 1..16
Pad(bytes) ==
    LET n == BlockSize - (Len(bytes) % BlockSize)
    IN  bytes \o [i \in 1..n |-> n]

Unpadded(ok, bytes) == [ok |-> ok, bytes |-> bytes]

\* Padding.unpad(data, 16): the data without its padding, or ValueError
Unpad(bytes) ==
    LET len == Len(bytes)
        n   == bytes[len]
    IN  IF len = 0 \/ len % BlockSize # 0 THEN Unpadded(FALSE, <<>>)
        ELSE IF n < 1 \/ n > BlockSize THEN Unpadded(FALSE, <<>>)
        ELSE IF \E i \in (len - n + 1)..len : bytes[i] # n THEN Unpadded(FALSE, <<>>)
        ELSE Unpadded(TRUE, SubSeq(bytes, 1, len - n))

\* AES.new(key, MODE_CBC, iv).encrypt: the first n bytes of the ciphertext
RECURSIVE CbcEncryptTo(_, _, _, _)
CbcEncryptTo(key, iv, plain, n) ==
    IF n = 0 THEN <<>>
    ELSE LET c    == CbcEncryptTo(key, iv, plain, n - 1)
             prev == IF n <= BlockSize THEN iv[n] ELSE c[n - BlockSize]
         IN  Append(c, EncryptBlockByte(key, BlockPos(n), Xor(plain[n], prev)))

CbcEncrypt(key, iv, plain) == CbcEncryptTo(key, iv, plain, Len(plain))

\* AES.new(key, MODE_CBC, iv).decrypt
CbcDecrypt(key, iv, cipher) ==
    [j \in 1..Len(cipher) |->
        Xor(DecryptBlockByte(key, BlockPos(j), cipher[j]),
            IF j <= BlockSize THEN iv[j] ELSE cipher[j - BlockSize])]

\* _encrypt on the bytes of plaintext, with the iv get_random_bytes gave
EncryptBytes(plaintext, key, iv, tok) ==
    [ciphertext |-> B64Encode(CbcEncrypt(key, iv, Pad(plaintext))),
     keyid |-> tok.sequencenumber, sha256 |-> "AA==", iv |-> B64Encode(iv)]

\* lines 310-316: decrypt and unpad what the envelope holds
DecryptBytes(envelope, key) ==
    Unpad(CbcDecrypt(key, B64Decode(envelope.iv), B64Decode(envelope.ciphertext)))

-----------------------------------------------------------------------------
(* Requests built by send_message *)

AppDatas == {"ping"}

\* lines 356-357
NetflixIdOf(jar)       == PyOr(jar["NetflixId"], jar["nflxid"])
SecureNetflixIdOf(jar) == PyOr(jar["SecureNetflixId"], jar["securenflxid"])

\* mutant: only the first identity cookie is checked
CookiesMissing_FirstOnly(jar) == ~Truthy(NetflixIdOf(jar))

\* line 359
CookiesMissing(jar) == ~Truthy(NetflixIdOf(jar)) \/ ~Truthy(SecureNetflixIdOf(jar))

UserAuth(jar) ==
    [scheme |-> "NETFLIXID", netflixid |-> NetflixIdOf(jar),
     securenetflixid |-> SecureNetflixIdOf(jar)]

\* header_data (lines 339-371)
HeaderData(mid, auth, jar) ==
    [messageid |-> mid, handshake |-> FALSE,
     userauthdata |-> IF auth THEN UserAuth(jar) ELSE NoUserAuth]

\* mutant: the header carries no master token of the client
BuildHeader_NoToken(mid, auth, jar, k, iv) ==
    LET headerdata == Encrypt(HeaderData(mid, auth, jar), k.encryption, iv, k.mastertoken)
    IN  [headerdata |-> B64Encode(headerdata),
         signature |-> Sign(headerdata, k.sign),
         mastertoken |-> NoToken]

\* lines 373-379
BuildHeader(mid, auth, jar, k, iv) ==
    LET headerdata == Encrypt(HeaderData(mid, auth, jar), k.encryption, iv, k.mastertoken)
    IN  [headerdata |-> B64Encode(headerdata),
         signature |-> Sign(headerdata, k.sign),
         mastertoken |-> k.mastertoken]

\* mutant: the chunk is numbered from 0
PayloadData_FromZero(mid, data) ==
    [messageid |-> mid, data |-> GzipCompress(data), compressionalgo |-> "GZIP",
     sequencenumber |-> 0, endofmsg |-> TRUE]

\* lines 381-388
PayloadData(mid, data) ==
    [messageid |-> mid, data |-> GzipCompress(data), compressionalgo |-> "GZIP",
     sequencenumber |-> 1, endofmsg |-> TRUE]

\* mutant: the payload signature is computed over the plaintext chunk
BuildPayload_SignPlain(mid, data, k, iv) ==
    LET payload_chunk == Encrypt(PayloadData(mid, data), k.encryption, iv, k.mastertoken)
    IN  [payload |-> B64Encode(payload_chunk),
         signature |-> Sign(PayloadData(mid, data), k.sign)]

\* lines 382-393
BuildPayload(mid, data, k, iv) ==
    LET payload_chunk == Encrypt(PayloadData(mid, data), k.encryption, iv, k.mastertoken)
    IN  [payload |-> B64Encode(payload_chunk),
         signature |-> Sign(payload_chunk, k.sign)]

\* msg[t] is <<>>, <<header>> or <<header, payload>>
NoMessage == <<>>

\* what the endpoint, holding the session keys, reads in a posted message
AppRequest(m) ==
    LET h  == Decrypt(B64Decode(m[1].headerdata))
        pl == Decrypt(B64Decode(m[2].payload))
    IN  [type |-> "app", messageid |-> h.messageid, payload_messageid |-> pl.messageid,
         mastertoken |-> m[1].mastertoken,
         chunks |-> <<ChunkInfo(pl.messageid, pl.sequencenumber, pl.endofmsg)>>]

-----------------------------------------------------------------------------
(* Responses to send_message *)

\* the header object of a response: errordata (base64 of a JSON document with
\* errorcode and errormsg) is present or not, and decodes or not
RespHeader(has, ok, code, emsg) ==
    [has_errordata |-> has,
     errordata |-> [decodes |-> ok, errorcode |-> code, errormsg |-> emsg]]
PlainHeader     == RespHeader(FALSE, FALSE, 0, None)
ErrorHeader     == RespHeader(TRUE, TRUE, 7, "bad token")
BadErrorHeader  == RespHeader(TRUE, FALSE, 0, None)

\* a payload object: the bytes of text (gzipped or not) under flag, encrypted
\* with enc and signed with sig
Chunk(enc, sig, gz, flag, text) ==
    LET envelope == [ciphertext |-> B64Encode(AesCbc(enc, 1,
                        [data |-> B64Encode(Bytes(gz, text)), compressionalgo |-> flag])),
                     iv |-> B64Encode(1)]
    IN  [payload |-> B64Encode(envelope), signature |-> Sign(envelope, sig)]

Response(kind, header, chunks) == [kind |-> kind, header |-> header, chunks |-> chunks]
NoResponse == Response(None, PlainHeader, <<>>)

OtherKey(key) == CHOOSE o \in SymKeys : o # key

\* what a posted message can meet at the endpoint
AppResponses(k) ==
    LET e    == k.encryption
        s    == k.sign
        Good(text) == Chunk(e, s, TRUE, "GZIP", text)
    IN  { Response("transport_error", PlainHeader, <<>>),
          Response("unparseable", PlainHeader, <<>>),
          Response("parsed", ErrorHeader, <<>>),
          Response("parsed", ErrorHeader, <<Good(<<"{", "result", "}">>)>>),
          Response("parsed", BadErrorHeader, <<>>),
          Response("parsed", PlainHeader, <<>>),
          Response("parsed", PlainHeader, <<Good(<<"{", "result", "}">>)>>),
          Response("parsed", PlainHeader, <<Good(<<"{", "error", "}">>)>>),
          Response("parsed", PlainHeader, <<Good(<<"{", "other", "}">>)>>),
          Response("parsed", PlainHeader,
                   <<Good(<<"{", "result">>), Chunk(e, s, FALSE, None, <<"}">>)>>),
          Response("parsed", PlainHeader,
                   <<Chunk(e, OtherKey(s), TRUE, "GZIP", <<"{", "result", "}">>)>>),
          Response("parsed", PlainHeader,
                   <<Chunk(OtherKey(e), s, TRUE, "GZIP", <<"{", "result", "}">>)>>),
          Response("parsed", PlainHeader, <<Good(<<"{", "result">>)>>) }

-----------------------------------------------------------------------------
(* Decoding a response *)

ChunkText(ok, ty, text) == [ok |-> ok, type |-> ty, text |-> text]

\* mutant: every chunk is gunzipped, flagged or not
DecodeChunk_AlwaysGunzip(chunk, key) ==
    LET envelope == B64Decode(chunk.payload)
        plain    == Decrypt(envelope)
        bytes    == B64Decode(plain.data)
    IN  IF ~DecryptOk(envelope, key)
          THEN ChunkText(FALSE, "ValueError", <<>>)
        ELSE IF bytes.gzip THEN ChunkText(TRUE, None, bytes.text)
        ELSE ChunkText(FALSE, "zlib.error", <<>>)

\* the body of the loop of _decrypt_payload_chunks (lines 304-324) for one
\* payload object: the text it adds to raw_data, or the exception it raises
DecodeChunk(chunk, key) ==
    LET envelope == B64Decode(chunk.payload)
        plain    == Decrypt(envelope)
        bytes    == B64Decode(plain.data)
    IN  IF ~DecryptOk(envelope, key)
          THEN ChunkText(FALSE, "ValueError", <<>>)
        ELSE IF plain.compressionalgo = "GZIP"
          THEN IF bytes.gzip THEN ChunkText(TRUE, None, bytes.text)
                             ELSE ChunkText(FALSE, "zlib.error", <<>>)
        ELSE IF bytes.gzip THEN ChunkText(FALSE, "UnicodeDecodeError", <<>>)
                           ELSE ChunkText(TRUE, None, bytes.text)

\* the loop: raw_data after chunks i.., or the first exception
RECURSIVE RawData(_, _, _, _)
RawData(chunks, key, i, raw) ==
    IF i > Len(chunks) THEN ChunkText(TRUE, None, raw)
    ELSE LET c == DecodeChunk(chunks[i], key)
         IN  IF c.ok THEN RawData(chunks, key, i + 1, raw \o c.text) ELSE c

\* json.loads(raw_data): an object is "{", distinct keys, "}"
JsonOk(text) ==
    /\ Len(text) >= 2
    /\ text[1] = "{"
    /\ text[Len(text)] = "}"
    /\ \A i \in 2..(Len(text) - 1) : text[i] \notin {"{", "}"}
    /\ \A i, j \in 2..(Len(text) - 1) : text[i] = text[j] => i = j

JsonKeys(text) == {text[i] : i \in 2..(Len(text) - 1)}

\* mutant: the document is returned whole even when it has a result
ResultOrDocument_Whole(doc) == Value("document", doc)

\* line 332: data.get("result", data), for a document with the keys doc
ResultOrDocument(doc) ==
    IF "result" \in doc THEN Value("result", doc) ELSE Value("document", doc)

\* _decrypt_payload_chunks
DecryptPayloadChunks(chunks, k) ==
    LET raw == RawData(chunks, k.encryption, 1, <<>>)
    IN  IF ~raw.ok THEN Raised(raw.type, "payload chunk")
        ELSE IF ~JsonOk(raw.text) THEN Raised("JSONDecodeError", "raw_data")
        ELSE IF "error" \in JsonKeys(raw.text) THEN Raised("Exception", "MSL error")
        ELSE Returned(ResultOrDocument(JsonKeys(raw.text)))

\* mutant: the errordata test is skipped
CarriesErrordata_Never(header) == FALSE

\* line 408
CarriesErrordata(header) == header.has_errordata

Parsed(r, d) == [ret |-> r, decrypted |-> d]

\* what json.loads gives for the response text: the objects of the list
JsonList(ok, objects) == [ok |-> ok, objects |-> objects]

\* mutant: _decrypt_payload_chunks is called whatever payload_chunks holds
ParseResponse_AlwaysDecrypt(r, k) ==
    IF r.kind = "unparseable"
      THEN Parsed(Raised("JSONDecodeError", "response"), FALSE)
    ELSE IF CarriesErrordata(r.header)
      THEN IF r.header.errordata.decodes
             THEN Parsed(RaisedWith("Exception", "MSL response error",
                                    r.header.errordata.errormsg), FALSE)
             ELSE Parsed(Raised("ValueError", "errordata"), FALSE)
    ELSE Parsed(DecryptPayloadChunks(r.chunks, k), TRUE)

\* send_message from line 404 on: how the call ends, and whether it called
\* _decrypt_payload_chunks
ParseResponse(r, k) ==
    IF r.kind = "unparseable"
      THEN Parsed(Raised("JSONDecodeError", "response"), FALSE)
    ELSE IF CarriesErrordata(r.header)
      THEN IF r.header.errordata.decodes
             THEN Parsed(RaisedWith("Exception", "MSL response error",
                                    r.header.errordata.errormsg), FALSE)
             ELSE Parsed(Raised("ValueError", "errordata"), FALSE)
    ELSE IF r.chunks # <<>>
      THEN Parsed(DecryptPayloadChunks(r.chunks, k), TRUE)
    ELSE Parsed(Returned(Value("empty", {})), FALSE)

-----------------------------------------------------------------------------
(* Construction *)

NoArgs  == [application_data |-> None, include_user_auth |-> FALSE]
NoEntry == [message_id |-> 0, keys |-> NoKeys, posts |-> 0]
NoHsResponse == HsFailure(None)

\* no _load_cache or _save_cache call observed yet
NotLoaded == Read("unloaded", None, NoKeys)

IdleCache ==
    /\ load_ret = NotLoaded
    /\ saved = {}

Callers == 1..MaxCallers

\* the locals of a send_message call: its arguments, the counter value line
\* 336 read, the ids lines 340 and 383 read, and how the call ended
NoReg == [application_data |-> None, include_user_auth |-> FALSE, read |-> 0,
          header_id |-> 0, payload_id |-> 0, ret |-> NoRet]

\* nothing given to the codec
NoEnvelope == [ciphertext |-> B64Encode(<<>>), keyid |-> 0, sha256 |-> "AA==",
               iv |-> B64Encode(<<>>)]
NoChunk    == [payload |-> B64Encode(NoEnvelope), signature |-> B64Encode(None)]
NoCodec ==
    [stage |-> "idle", plaintext |-> <<>>, envelope |-> NoEnvelope,
     out |-> Unpadded(FALSE, <<>>),
     chunk_stage |-> "idle", data |-> None, chunk |-> NoChunk,
     text |-> ChunkText(FALSE, None, <<>>),
     key_stage |-> "idle", key_text |-> Jwk(0, None), key_out |-> NoKeyDecoded,
     wire_stage |-> "idle", r_text |-> <<>>, served |-> <<>>,
     parsed_message |-> JsonList(FALSE, <<>>), wire_ret |-> Parsed(NoRet, FALSE)]

IdleCodec == codec = NoCodec

\* no caller is inside send_message
IdleThreads ==
    /\ pc = [c \in Callers |-> "idle"]
    /\ reg = [c \in Callers |-> NoReg]

\* no client constructed yet
IdleClient ==
    /\ phase = "NoClient"
    /\ instances = 0
    /\ cache_path = FALSE
    /\ cookies = NoJar
    /\ seed = 0
    /\ message_id = 0
    /\ keys = NoKeys
    /\ init_ret = NoRet
    /\ net = <<>>
    /\ hs_resp = NoHsResponse
    /\ used_ids = <<>>
    /\ calls = 0
    /\ args = NoArgs
    /\ entry = NoEntry
    /\ msg = NoMessage
    /\ resp = NoResponse
    /\ decrypted = FALSE
    /\ ret = NoRet

Init ==
    /\ now = 0
    /\ tz \in Offsets
    /\ cache \in InitialCaches
    /\ IdleClient
    /\ IdleCache
    /\ IdleThreads
    /\ IdleCodec

\* the wall clock advances
Tick ==
    /\ \E t \in Instants : t > now /\ now' = t
    /\ UNCHANGED <<tz, cache, net, hs_resp, used_ids, calls>>
    /\ UNCHANGED clientVars
    /\ UNCHANGED callVars
    /\ UNCHANGED auxVars

\* RSA.generate(2048): a key pair no earlier construction had
GenerateRsa(n) == n + 1

\* mutant: the cache is never consulted
LoadOrNone_Never(path, file, t, offset) == NoKeys

\* line 68: the cache is consulted only for a path that exists
LoadOrNone(path, file, t, offset) ==
    IF path /\ file.kind # "nofile" THEN LoadCache(path, file, t, offset) ELSE NoKeys

\* NetflixMSL.__init__(esn, cookies_dict, endpoint, cache_path), with the
\* response h its handshake request (if one is made) meets
Construct(path, jar, sd, h) ==
    /\ phase = "NoClient"
    /\ instances < MaxInstances
    \* each value is bound once, where a LET is evaluated again at every use
    /\ \E loaded \in {LoadOrNone(path, cache, now, tz)} :
          /\ loaded.obj => h = HsFailure("transport_error")
          /\ IF loaded.obj
               THEN /\ keys' = loaded
                    /\ init_ret' = Returned(NoValue)
                    /\ phase' = "Ready"
                    /\ net' = <<>>
                    /\ hs_resp' = NoHsResponse
                    /\ used_ids' = <<>>
                    /\ cache' = cache
               ELSE \E hs \in {Handshake(GenerateRsa(instances), path, cache, h)} :
                    /\ keys' = hs.keys
                    /\ init_ret' = hs.ret
                    /\ phase' = IF hs.ret.kind = "return" THEN "Ready" ELSE "Failed"
                    /\ net' = <<HandshakeRequest(sd, GenerateRsa(instances))>>
                    /\ hs_resp' = h
                    /\ used_ids' = <<sd>>
                    /\ cache' = hs.cache
    /\ instances' = instances + 1
    /\ cache_path' = path
    /\ cookies' = jar
    /\ seed' = sd
    /\ message_id' = sd
    /\ calls' = 0
    /\ args' = NoArgs
    /\ entry' = NoEntry
    /\ msg' = NoMessage
    /\ resp' = NoResponse
    /\ decrypted' = FALSE
    /\ ret' = NoRet
    /\ UNCHANGED envVars
    /\ UNCHANGED auxVars

\* the caller drops the instance it holds (or, after __init__ raised, holds
\* none): the next client is a new object
Discard ==
    /\ phase # "NoClient"
    /\ phase' = "NoClient"
    /\ cache_path' = FALSE
    /\ cookies' = NoJar
    /\ seed' = 0
    /\ message_id' = 0
    /\ keys' = NoKeys
    /\ init_ret' = NoRet
    /\ net' = <<>>
    /\ hs_resp' = NoHsResponse
    /\ used_ids' = <<>>
    /\ calls' = 0
    /\ args' = NoArgs
    /\ entry' = NoEntry
    /\ msg' = NoMessage
    /\ resp' = NoResponse
    /\ decrypted' = FALSE
    /\ ret' = NoRet
    /\ UNCHANGED <<instances, cache>>
    /\ UNCHANGED envVars
    /\ UNCHANGED auxVars

-----------------------------------------------------------------------------
(* send_message *)

\* mutant: the counter is read and stored back unchanged
NextMessageId_NoIncrement(read) == read

\* line 336: the value `self.message_id += 1` stores
NextMessageId(read) == read + 1

Sent(m, posted, r, p) == [msg |-> m, posted |-> posted, resp |-> r, parsed |-> p]

\* send_message after line 336, for the counter value mid it then reads: the
\* message it builds, whether it posts it, and how it ends when the post meets r
SendMessageBody(mid, data, auth, jar, k, ivh, ivp, r) ==
    LET m == <<BuildHeader(mid, auth, jar, k, ivh), BuildPayload(mid, data, k, ivp)>>
    IN  IF auth /\ CookiesMissing(jar)
          THEN Sent(NoMessage, FALSE, NoResponse,
                    Parsed(Raised("Exception", "Netflix authentication cookies not found"),
                           FALSE))
        ELSE IF ~EncryptOk(k.mastertoken)
          THEN Sent(NoMessage, FALSE, NoResponse,
                    Parsed(Raised("ValueError", "tokendata"), FALSE))
        ELSE IF r.kind = "transport_error"
          THEN Sent(m, TRUE, r, Parsed(Raised("Exception", "MSL message send failed"), FALSE))
        ELSE Sent(m, TRUE, r, ParseResponse(r, k))

\* NetflixMSL.send_message(application_data, include_user_auth), with the
\* response r its post (if made) meets
SendMessage(data, auth, r) ==
    /\ phase = "Ready"
    /\ calls < MaxCalls
    \* each value is bound once, where a LET is evaluated again at every use
    /\ \E mid \in {NextMessageId(message_id)} :
       \E out \in {SendMessageBody(mid, data, auth, cookies, keys,
                                   FreshIv(2 * calls), FreshIv(2 * calls + 1), r)} :
          /\ calls' = calls + 1
          /\ message_id' = mid
          /\ args' = [application_data |-> data, include_user_auth |-> auth]
          /\ entry' = [message_id |-> message_id, keys |-> keys, posts |-> Len(net)]
          /\ used_ids' = Append(used_ids, mid)
          /\ msg' = out.msg
          /\ resp' = out.resp
          /\ decrypted' = out.parsed.decrypted
          /\ ret' = out.parsed.ret
          /\ net' = IF out.posted THEN Append(net, AppRequest(out.msg)) ELSE net
    /\ UNCHANGED <<cache, hs_resp>>
    /\ UNCHANGED envVars
    /\ UNCHANGED <<phase, instances, cache_path, cookies, seed, keys, init_ret>>
    /\ UNCHANGED auxVars

-----------------------------------------------------------------------------
(* The client used by one caller at a time, as the source assumes *)

Next ==
    \/ Tick
    \/ Discard
    \/ \E path \in BOOLEAN, jar \in CookieJars, sd \in Seeds :
          \E h \in HandshakeResponses(GenerateRsa(instances)) :
             Construct(path, jar, sd, h)
    \/ \E data \in AppDatas, auth \in BOOLEAN :
          \E r \in AppResponses(keys) :
             SendMessage(data, auth, r)

Spec == Init /\ [][Next]_vars

-----------------------------------------------------------------------------
(* The cache file under the processes that read and write it *)

\* key materials a handshake can leave in self.keys
Materials ==
    { MSLKeys("k1", "k2", 1, Token(39600, 2)),
      MSLKeys("k3", "k4", 2, Token(36000, 1)) }

\* files found at cache_path: what _save_cache wrote, and texts damaged since
CacheFiles ==
    LET good == CacheRecord(MSLKeys("k1", "k2", 1, Token(39600, 2)))
    IN  {NoFile, CorruptFile, [CorruptFile EXCEPT !.kind = "unreadable"]}
        \cup {CacheRecord(m) : m \in Materials}
        \cup {[good EXCEPT !.fields = AllFields \ {f}] : f \in AllFields}
        \cup {[good EXCEPT !.encryption = B64Text("k1", "short")],
              [good EXCEPT !.sign = B64Text("k2", "short")],
              [good EXCEPT !.encryption = B64Text("k1", "foreign")],
              [good EXCEPT !.sign = B64Text("", "foreign")],
              [good EXCEPT !.rsa = ExportKey(0)],
              [good EXCEPT !.mastertoken = MalformedToken],
              [good EXCEPT !.mastertoken = NoToken]}

CacheInit ==
    /\ now = 0
    /\ tz \in Offsets
    /\ cache \in CacheFiles
    /\ IdleClient
    /\ IdleThreads
    /\ IdleCodec
    /\ load_ret = NotLoaded
    /\ saved = {m \in Materials : cache = CacheRecord(m)}

\* self._load_cache() of line 68, by a process that finds the file
LoadStep ==
    /\ cache.kind # "nofile"
    /\ load_ret' = LoadCacheCall(TRUE, cache, now, tz)
    /\ UNCHANGED <<cache, saved, net, hs_resp, used_ids, calls>>
    /\ UNCHANGED envVars
    /\ UNCHANGED clientVars
    /\ UNCHANGED callVars
    /\ UNCHANGED threadVars
    /\ UNCHANGED codecVars

\* self._save_cache() of line 197 by a process holding keys k, which is
\* killed after json.dump wrote n pieces (n = Len(FieldOrder) + 1: it ends)
SaveStep(k, n) ==
    /\ cache' = DumpPrefix(OpenForWrite(cache), k, n)
    /\ saved' = saved \cup {k}
    /\ load_ret' = NotLoaded
    /\ UNCHANGED <<net, hs_resp, used_ids, calls>>
    /\ UNCHANGED envVars
    /\ UNCHANGED clientVars
    /\ UNCHANGED callVars
    /\ UNCHANGED threadVars
    /\ UNCHANGED codecVars

CacheNext ==
    \/ Tick
    \/ LoadStep
    \/ \E k \in Materials, n \in 0..(Len(FieldOrder) + 1) : SaveStep(k, n)

CacheSpec == CacheInit /\ [][CacheNext]_vars

-----------------------------------------------------------------------------
(* One client whose send_message is called by several threads at once *)

\* a client as a construction from a fresh cache leaves it: Ready, nothing posted
ConcInit ==
    /\ now = 0
    /\ tz = 0
    /\ cache = CacheRecord(MSLKeys("k3", "k4", OldRsa, Token(39600, 1)))
    /\ phase = "Ready"
    /\ instances = 1
    /\ cache_path = TRUE
    /\ cookies \in CookieJars
    /\ seed \in Seeds
    /\ message_id = seed
    /\ keys = LoadCache(TRUE, cache, now, tz)
    /\ init_ret = Returned(NoValue)
    /\ net = <<>>
    /\ hs_resp = NoHsResponse
    /\ used_ids = <<>>
    /\ calls = 0
    /\ args = NoArgs
    /\ entry = NoEntry
    /\ msg = NoMessage
    /\ resp = NoResponse
    /\ decrypted = FALSE
    /\ ret = NoRet
    /\ IdleCache
    /\ IdleThreads
    /\ IdleCodec

\* what a step of a caller leaves alone besides pc, reg, message_id and net
threadFrame == <<now, tz, cache, phase, instances, cache_path, cookies, seed, keys,
                 init_ret, hs_resp, used_ids, calls, args, entry, msg, resp, decrypted,
                 ret, cacheVars, codecVars>>

\* thread c calls send_message(data, auth)
CallSend(c, data, auth) ==
    /\ pc[c] = "idle"
    /\ pc' = [pc EXCEPT ![c] = "read"]
    /\ reg' = [reg EXCEPT ![c] = [NoReg EXCEPT !.application_data = data,
                                               !.include_user_auth = auth]]
    /\ UNCHANGED <<message_id, net>>
    /\ UNCHANGED threadFrame

\* line 336, first half: self.message_id is read
ReadCounter(c) ==
    /\ pc[c] = "read"
    /\ pc' = [pc EXCEPT ![c] = "write"]
    /\ reg' = [reg EXCEPT ![c].read = message_id]
    /\ UNCHANGED <<message_id, net>>
    /\ UNCHANGED threadFrame

\* line 336, second half: the sum is stored in self.message_id
WriteCounter(c) ==
    /\ pc[c] = "write"
    /\ pc' = [pc EXCEPT ![c] = "header"]
    /\ message_id' = NextMessageId(reg[c].read)
    /\ UNCHANGED <<reg, net>>
    /\ UNCHANGED threadFrame

\* lines 339-379: header_data reads self.message_id; the cookies are checked
\* and the header is encrypted
MakeHeader(c) ==
    /\ pc[c] = "header"
    /\ IF reg[c].include_user_auth /\ CookiesMissing(cookies)
         THEN /\ pc' = [pc EXCEPT ![c] = "done"]
              /\ reg' = [reg EXCEPT ![c].header_id = message_id,
                                    ![c].ret = Raised("Exception",
                                        "Netflix authentication cookies not found")]
       ELSE IF ~EncryptOk(keys.mastertoken)
         THEN /\ pc' = [pc EXCEPT ![c] = "done"]
              /\ reg' = [reg EXCEPT ![c].header_id = message_id,
                                    ![c].ret = Raised("ValueError", "tokendata")]
       ELSE /\ pc' = [pc EXCEPT ![c] = "payload"]
            /\ reg' = [reg EXCEPT ![c].header_id = message_id]
    /\ UNCHANGED <<message_id, net>>
    /\ UNCHANGED threadFrame

\* lines 382-395: the payload chunk reads self.message_id again
MakePayload(c) ==
    /\ pc[c] = "payload"
    /\ pc' = [pc EXCEPT ![c] = "post"]
    /\ reg' = [reg EXCEPT ![c].payload_id = message_id]
    /\ UNCHANGED <<message_id, net>>
    /\ UNCHANGED threadFrame

\* the message thread c built
MessageOf(c) ==
    <<BuildHeader(reg[c].header_id, reg[c].include_user_auth, cookies, keys,
                  FreshIv(2 * c)),
      BuildPayload(reg[c].payload_id, reg[c].application_data, keys, FreshIv(2 * c + 1))>>

\* line 399: session.post puts the message on the wire and waits
PostMessage(c) ==
    /\ pc[c] = "post"
    /\ pc' = [pc EXCEPT ![c] = "wait"]
    /\ net' = Append(net, AppRequest(MessageOf(c)))
    /\ UNCHANGED <<message_id, reg>>
    /\ UNCHANGED threadFrame

\* what the waiting post can meet
ThreadResponses ==
    { Response("transport_error", PlainHeader, <<>>),
      Response("parsed", ErrorHeader, <<>>),
      Response("parsed", PlainHeader, <<>>) }

\* lines 399-417: the post returns (or raises) and the response is parsed
TakeResponse(c, r) ==
    /\ pc[c] = "wait"
    /\ pc' = [pc EXCEPT ![c] = "done"]
    /\ reg' = [reg EXCEPT ![c].ret =
                  IF r.kind = "transport_error"
                    THEN Raised("Exception", "MSL message send failed")
                    ELSE ParseResponse(r, keys).ret]
    /\ UNCHANGED <<message_id, net>>
    /\ UNCHANGED threadFrame

ConcNext ==
    \E c \in Callers :
        \/ \E data \in AppDatas, auth \in BOOLEAN : CallSend(c, data, auth)
        \/ ReadCounter(c)
        \/ WriteCounter(c)
        \/ MakeHeader(c)
        \/ MakePayload(c)
        \/ PostMessage(c)
        \/ \E r \in ThreadResponses : TakeResponse(c, r)

ConcSpec == ConcInit /\ [][ConcNext]_vars

-----------------------------------------------------------------------------
(* The codec: what _encrypt and send_message produce, decoded again *)

\* the plaintexts: lengths around every whole number of blocks up to
\* MaxBlocks, filled with a padding-like byte, with 1, or with rising values
PlainLengths ==
    {l \in 0..(MaxBlocks * BlockSize + 1) :
        \E b \in 0..MaxBlocks : l \in {b * BlockSize - 1, b * BlockSize, b * BlockSize + 1}}

Plaintexts ==
    UNION {{[i \in 1..l |-> BlockSize], [i \in 1..l |-> 1], [i \in 1..l |-> i % ByteRange]} :
              l \in PlainLengths}

\* values get_random_bytes(16) can give
Ivs == { [i \in 1..BlockSize |-> 0],
         [i \in 1..BlockSize |-> ByteRange - 1],
         [i \in 1..BlockSize |-> (7 * i) % ByteRange] }

\* a Ready client (its keys are those of a material), one plaintext and one
\* application datum
CodecInit ==
    /\ now = 0
    /\ tz = 0
    /\ cache = NoFile
    /\ phase = "Ready"
    /\ instances = 1
    /\ cache_path = FALSE
    /\ cookies = NoJar
    /\ seed \in Seeds
    /\ message_id = seed
    /\ keys \in Materials
    /\ init_ret = Returned(NoValue)
    /\ net = <<HandshakeRequest(seed, keys.rsa)>>
    /\ hs_resp = NoHsResponse
    /\ used_ids = <<seed>>
    /\ calls = 0
    /\ args = NoArgs
    /\ entry = NoEntry
    /\ msg = NoMessage
    /\ resp = NoResponse
    /\ decrypted = FALSE
    /\ ret = NoRet
    /\ IdleCache
    /\ IdleThreads
    /\ \E p \in Plaintexts, d \in AppDatas :
          codec = [NoCodec EXCEPT !.stage = "input", !.plaintext = p,
                                  !.chunk_stage = "input", !.data = d]

codecFrame == <<now, tz, cache, phase, instances, cache_path, cookies, seed, message_id,
                keys, init_ret, net, hs_resp, used_ids, calls, args, entry, msg, resp,
                decrypted, ret, cacheVars, threadVars>>

\* self._encrypt(plaintext), drawing iv
EncryptStep(iv) ==
    /\ codec.stage = "input"
    /\ codec' = [codec EXCEPT !.stage = "encrypted",
                              !.envelope = EncryptBytes(codec.plaintext,
                                               KeyBytes(keys.encryption), iv,
                                               keys.mastertoken)]
    /\ UNCHANGED codecFrame

\* lines 310-316 on that envelope, with the same self.keys.encryption
DecryptStep ==
    /\ codec.stage = "encrypted"
    /\ codec' = [codec EXCEPT !.stage = "decrypted",
                              !.out = DecryptBytes(codec.envelope,
                                                   KeyBytes(keys.encryption))]
    /\ UNCHANGED codecFrame

\* lines 382-393: the payload object send_message builds for the datum
BuildChunkStep ==
    /\ codec.chunk_stage = "input"
    /\ codec' = [codec EXCEPT !.chunk_stage = "built",
                              !.chunk = BuildPayload(NextMessageId(message_id), codec.data,
                                                     keys, FreshIv(1))]
    /\ UNCHANGED codecFrame

\* lines 304-324 on that payload object
DecodeChunkStep ==
    /\ codec.chunk_stage = "built"
    /\ codec' = [codec EXCEPT !.chunk_stage = "decoded",
                              !.text = DecodeChunk(codec.chunk, keys.encryption)]
    /\ UNCHANGED codecFrame

CodecNext ==
    \/ \E iv \in Ivs : EncryptStep(iv)
    \/ DecryptStep
    \/ BuildChunkStep
    \/ DecodeChunkStep

CodecSpec == CodecInit /\ [][CodecNext]_vars

-----------------------------------------------------------------------------
(* _base64key_decode on the strings a key response can hold *)

\* JWK "k" strings of every length up to MaxKeyChars
KeyTexts == {Jwk(n, b) : n \in 0..MaxKeyChars, b \in {"k1", "k2"}}

\* no client yet; one string on its way to _base64key_decode
KeyInit ==
    /\ now = 0
    /\ tz = 0
    /\ cache = NoFile
    /\ IdleClient
    /\ IdleCache
    /\ IdleThreads
    /\ \E t \in KeyTexts :
          codec = [NoCodec EXCEPT !.key_stage = "input", !.key_text = t]

\* self._base64key_decode(...) of lines 179 and 186
KeyDecodeStep ==
    /\ codec.key_stage = "input"
    /\ codec' = [codec EXCEPT !.key_stage = "decoded",
                              !.key_out = Base64KeyDecode(codec.key_text)]
    /\ UNCHANGED codecFrame

KeyNext == KeyDecodeStep

KeySpec == KeyInit /\ [][KeyNext]_vars

-----------------------------------------------------------------------------
(* get_manifest on a client constructed from a fresh cache *)

\* mutant: the default is False
IncludeUserAuthDefault_False == FALSE

\* line 334: the default of send_message's include_user_auth
IncludeUserAuthDefault == TRUE

\* lines 427-475: the profiles requested when the caller names none
DefaultProfiles ==
    <<
      "playready-h264mpl30-dash", "playready-h264mpl31-dash",
      "playready-h264hpl30-dash", "playready-h264hpl31-dash",
      "hevc-main-L30-dash-cenc", "hevc-main-L31-dash-cenc",
      "hevc-main10-L30-dash-cenc", "hevc-main10-L31-dash-cenc",
      "hevc-main10-L40-dash-cenc", "hevc-main10-L41-dash-cenc",
      "hevc-main10-L50-dash-cenc", "hevc-main10-L51-dash-cenc",
      "hevc-hdr-main10-L30-dash-cenc", "hevc-hdr-main10-L31-dash-cenc",
      "hevc-hdr-main10-L40-dash-cenc", "hevc-hdr-main10-L41-dash-cenc",
      "hevc-hdr-main10-L50-dash-cenc", "hevc-hdr-main10-L51-dash-cenc",
      "hevc-dv-main10-L30-dash-cenc", "hevc-dv-main10-L31-dash-cenc",
      "hevc-dv-main10-L40-dash-cenc", "hevc-dv-main10-L41-dash-cenc",
      "hevc-dv-main10-L50-dash-cenc", "hevc-dv-main10-L51-dash-cenc",
      "hevc-dv5-main10-L30-dash-cenc", "hevc-dv5-main10-L31-dash-cenc",
      "hevc-dv5-main10-L40-dash-cenc", "hevc-dv5-main10-L41-dash-cenc",
      "hevc-dv5-main10-L50-dash-cenc", "hevc-dv5-main10-L51-dash-cenc",
      "heaac-2-dash", "heaac-2hq-dash", "ddplus-2.0-dash", "ddplus-5.1-dash",
      "ddplus-5.1hq-dash", "dd-5.1-dash", "ddplus-atmos-dash",
      "webvtt-lssdh-ios8", "dfxp-ls-sdh"
    >>

\* the viewable_id argument: an int or a str, with its text
ViewableId(ty, text) == [type |-> ty, text |-> text]
ViewableIds == {ViewableId("int", "81215567"), ViewableId("str", "81215567"),
                ViewableId("str", "")}
\* str(viewable_id) (line 488)
Str(v) == v.text

\* the profiles argument: None or a list
ProfilesArg(given, list) == [given |-> given, list |-> list]
ProfileLists == {ProfilesArg(FALSE, <<>>), ProfilesArg(TRUE, <<>>),
                 ProfilesArg(TRUE, <<"heaac-2-dash">>)}

\* request_data (lines 478-513)
ManifestRequest(viewable_id, profiles) ==
    [url |-> "/manifest", type |-> "standard",
     viewableId |-> Str(viewable_id),
     profiles |-> IF profiles.given THEN profiles.list ELSE DefaultProfiles,
     flavor |-> "STANDARD", drmType |-> "widevine",
     supportedHdcpVersions |-> <<"2.2">>, isHdcpEngaged |-> TRUE]

\* NetflixMSL.get_manifest(viewable_id, profiles), with the response r the
\* post of its send_message call (if made) meets
GetManifest(viewable_id, profiles, r) ==
    SendMessage(ManifestRequest(viewable_id, profiles), IncludeUserAuthDefault, r)

ManifestInit ==
    /\ now = 0
    /\ tz = 0
    /\ cache = CacheRecord(MSLKeys("k3", "k4", OldRsa, Token(39600, 1)))
    /\ phase = "Ready"
    /\ instances = 1
    /\ cache_path = TRUE
    /\ cookies \in CookieJars
    /\ seed \in Seeds
    /\ message_id = seed
    /\ keys = LoadCache(TRUE, cache, now, tz)
    /\ init_ret = Returned(NoValue)
    /\ net = <<>>
    /\ hs_resp = NoHsResponse
    /\ used_ids = <<>>
    /\ calls = 0
    /\ args = NoArgs
    /\ entry = NoEntry
    /\ msg = NoMessage
    /\ resp = NoResponse
    /\ decrypted = FALSE
    /\ ret = NoRet
    /\ IdleCache
    /\ IdleThreads
    /\ IdleCodec

ManifestNext ==
    \E viewable_id \in ViewableIds, profiles \in ProfileLists :
        \E r \in AppResponses(keys) :
            GetManifest(viewable_id, profiles, r)

ManifestSpec == ManifestInit /\ [][ManifestNext]_vars

-----------------------------------------------------------------------------
(* The response text: send_message from line 405 on *)

\* the characters of a response text: braces, commas, the quote, and atoms
\* that stand for runs of characters holding none of these (a key, a base64
\* text)
Quote == "'"

\* the text of the i-th payload object, {"payload": <base64>, ...}
PayloadAtom(i) == "p" \o ToString(i)
PayloadObject(i) == <<"{", Quote, PayloadAtom(i), Quote, "}">>

\* header objects an endpoint can send: flat, ending in a nested object, with
\* a string that holds "}{", and one with errordata
HeaderTexts ==
    { <<"{", Quote, "headerdata", Quote, "}">>,
      <<"{", Quote, "headerdata", Quote, "{", Quote, "tokendata", Quote, "}", "}">>,
      <<"{", Quote, "}", "{", Quote, "}">>,
      <<"{", Quote, "errordata", Quote, "}">> }

\* r.text: the header object and n payload objects, nothing between them
RECURSIVE WireText(_, _)
WireText(header, n) ==
    IF n = 0 THEN header ELSE WireText(header, n - 1) \o PayloadObject(n)

\* mutant: the text is parsed as it came
ReplaceBraces_None(text) == text

\* r.text.replace("}{", "},{") (line 405): every "}" followed by "{", left to
\* right, gets a comma between the two
RECURSIVE ReplaceBraces(_)
ReplaceBraces(text) ==
    IF Len(text) < 2 THEN text
    ELSE IF text[1] = "}" /\ text[2] = "{"
      THEN <<"}", ",", "{">> \o ReplaceBraces(SubSeq(text, 3, Len(text)))
    ELSE <<text[1]>> \o ReplaceBraces(Tail(text))

\* json.loads("[" + text + "]") (line 405): the objects of the list in order,
\* or a JSONDecodeError.  At position i: depth open braces, instr inside a
\* string, start where the current object began, sep just after an object
RECURSIVE ScanList(_, _, _, _, _, _, _)
ScanList(text, i, depth, instr, start, sep, objs) ==
    IF i > Len(text)
      THEN IF depth = 0 /\ ~instr /\ (sep \/ Len(text) = 0)
             THEN JsonList(TRUE, objs) ELSE JsonList(FALSE, <<>>)
    ELSE IF instr
      THEN ScanList(text, i + 1, depth, text[i] # Quote, start, sep, objs)
    ELSE IF depth = 0
      THEN IF sep /\ text[i] = ","
             THEN ScanList(text, i + 1, 0, FALSE, start, FALSE, objs)
           ELSE IF ~sep /\ text[i] = "{"
             THEN ScanList(text, i + 1, 1, FALSE, i, FALSE, objs)
           ELSE JsonList(FALSE, <<>>)
    ELSE IF text[i] = Quote
      THEN ScanList(text, i + 1, depth, TRUE, start, sep, objs)
    ELSE IF text[i] = "{"
      THEN ScanList(text, i + 1, depth + 1, FALSE, start, sep, objs)
    ELSE IF text[i] = "}" /\ depth = 1
      THEN ScanList(text, i + 1, 0, FALSE, start, TRUE,
                    Append(objs, SubSeq(text, start, i)))
    ELSE IF text[i] = "}"
      THEN ScanList(text, i + 1, depth - 1, FALSE, start, sep, objs)
    ELSE ScanList(text, i + 1, depth, FALSE, start, sep, objs)

\* parsed_message (line 405)
ParsedMessage(text) == ScanList(ReplaceBraces(text), 1, 0, FALSE, 1, FALSE, <<>>)

\* "errordata" in header_response (line 408), as a header the parser reads
HeaderResponse(obj) ==
    IF \E i \in 1..Len(obj) : obj[i] = "errordata" THEN ErrorHeader ELSE PlainHeader

\* parsed_message[1:] (line 412): each object with the payload it holds
PayloadChunks(objs, served) ==
    [i \in 1..(Len(objs) - 1) |->
        served[CHOOSE j \in 1..Len(served) : PayloadAtom(j) = objs[i + 1][3]]]

\* lines 405-417 on the text of a response
ReceiveText(text, served, k) ==
    LET parsed_message == ParsedMessage(text)
    IN  IF ~parsed_message.ok
          THEN Parsed(Raised("JSONDecodeError", "response"), FALSE)
        ELSE IF parsed_message.objects = <<>>
          THEN Parsed(Raised("IndexError", "parsed_message"), FALSE)
        ELSE ParseResponse(
                 Response("parsed", HeaderResponse(parsed_message.objects[1]),
                          PayloadChunks(parsed_message.objects, served)), k)

\* a JSON document the endpoint answers with, cut into n pieces at the points
\* cuts, piece i sent gzipped or not and flagged or not as form[i] says
Document == <<"{", "result", "}">>
Cuts(n) ==
    {c \in [1..(n - 1) -> 0..Len(Document)] :
        \A i, j \in 1..(n - 1) : i < j => c[i] <= c[j]}
Piece(c, n, i) ==
    SubSeq(Document, (IF i = 1 THEN 0 ELSE c[i - 1]) + 1,
                     IF i = n THEN Len(Document) ELSE c[i])
ChunkForms == {[gz |-> g, flag |-> f] : g \in BOOLEAN, f \in {"GZIP", None}}
ServedChunks(k, n) ==
    {[i \in 1..n |-> Chunk(k.encryption, k.sign, form[i].gz, form[i].flag,
                           Piece(c, n, i))] :
        c \in Cuts(n), form \in [1..n -> ChunkForms]}

\* a client loaded from a fresh cache, in a send_message call: one datum to
\* build the payload object from, and the response text its post meets
WireInit ==
    /\ now = 0
    /\ tz = 0
    /\ cache = CacheRecord(MSLKeys("k3", "k4", OldRsa, Token(39600, 1)))
    /\ phase = "Ready"
    /\ instances = 1
    /\ cache_path = TRUE
    /\ cookies = NoJar
    /\ seed = 0
    /\ message_id = seed
    /\ keys = LoadCache(TRUE, cache, now, tz)
    /\ init_ret = Returned(NoValue)
    /\ net = <<>>
    /\ hs_resp = NoHsResponse
    /\ used_ids = <<>>
    /\ calls = 0
    /\ args = NoArgs
    /\ entry = NoEntry
    /\ msg = NoMessage
    /\ resp = NoResponse
    /\ decrypted = FALSE
    /\ ret = NoRet
    /\ IdleCache
    /\ IdleThreads
    /\ \E header \in HeaderTexts, n \in 0..MaxChunks, d \in AppDatas :
          \E chunks \in ServedChunks(keys, n) :
             codec = [NoCodec EXCEPT !.chunk_stage = "input", !.data = d,
                                     !.wire_stage = "input",
                                     !.r_text = WireText(header, n),
                                     !.served = chunks]

\* send_message from line 405 to its end
ReceiveStep ==
    /\ codec.wire_stage = "input"
    /\ codec' = [codec EXCEPT !.wire_stage = "done",
                              !.parsed_message = ParsedMessage(codec.r_text),
                              !.wire_ret = ReceiveText(codec.r_text, codec.served, keys)]
    /\ UNCHANGED codecFrame

WireNext ==
    \/ BuildChunkStep
    \/ ReceiveStep

WireSpec == WireInit /\ [][WireNext]_vars

-----------------------------------------------------------------------------
(* Claims *)

\* a send_message step of the current instance
IsSendStep == calls' = calls + 1

\* a send_message step that posted its message
IsPostStep == IsSendStep /\ Len(net') = Len(net) + 1

\* the last send_message call ended in an error before a response was obtained
FailedBeforeResponse ==
    /\ calls > 0
    /\ ret.kind = "raise"
    /\ resp.kind \in {None, "transport_error"}

\* an identity cookie is absent or empty under both of its names
Blank(v) == v = None \/ v = ""
IdentityCookieMissing(jar) ==
    \/ Blank(jar["NetflixId"]) /\ Blank(jar["nflxid"])
    \/ Blank(jar["SecureNetflixId"]) /\ Blank(jar["securenflxid"])

\* C1: whenever send_message posts a message, the master token the client
\* holds has an expiration later than the current time.
C1_SendsOnlyWithLiveToken ==
    [][IsPostStep => keys.mastertoken.expiration > now]_vars

\* C2: the handshake uses the seed, and every send_message call, failing or
\* not, uses a message id strictly greater than every id used before it by
\* the same client; what is posted carries the id of its call.
C2_MessageIdNeverReused ==
    /\ \A i, j \in 1..Len(used_ids) : i < j => used_ids[i] < used_ids[j]
    /\ \A i \in 1..Len(net) :
          /\ net[i].type = "handshake" => i = 1 /\ net[i].messageid = seed
                                          /\ used_ids[1] = seed
          /\ \E j \in 1..Len(used_ids) : used_ids[j] = net[i].messageid
          /\ \A j \in 1..Len(net) : i < j => net[i].messageid < net[j].messageid
    /\ calls > 0 => used_ids[Len(used_ids)] = message_id

C2_Witness ==
    /\ Len(used_ids) = 3
    /\ Len(net) = 2
    /\ net[1].type = "handshake"
    /\ ret.kind = "raise"

\* C3: send_message with include_user_auth true fails with the
\* cookies-not-found error and posts nothing whenever an identity cookie is
\* absent or empty; it posts only when both are present and non-empty.
C3_MissingCookiesNoNetwork ==
    (calls > 0 /\ args.include_user_auth) =>
        /\ IdentityCookieMissing(cookies) =>
              /\ ret.kind = "raise"
              /\ ret.msg = "Netflix authentication cookies not found"
              /\ Len(net) = entry.posts
              /\ msg = NoMessage
        /\ Len(net) > entry.posts => ~IdentityCookieMissing(cookies)

C3_Witness ==
    /\ calls > 0
    /\ args.include_user_auth
    /\ IdentityCookieMissing(cookies)
    /\ Truthy(cookies["SecureNetflixId"])
    /\ ret.msg = "Netflix authentication cookies not found"
    /\ Len(net) = entry.posts

\* C4: a response whose header carries errordata ends the call in an error
\* and never reaches _decrypt_payload_chunks, whatever payload objects follow.
C4_ErrordataNeverDecoded ==
    (calls > 0 /\ resp.kind = "parsed" /\ resp.header.has_errordata) =>
        ret.kind = "raise" /\ ~decrypted

C4_Witness ==
    /\ calls > 0
    /\ resp.kind = "parsed"
    /\ resp.header.has_errordata
    /\ resp.chunks # <<>>
    /\ ret.kind = "raise"

\* C5: once a send_message call has surfaced errordata, no later
\* send_message call on the same instance posts a message.
C5_FaultedIsTerminal ==
    [][(calls > 0 /\ resp.kind = "parsed" /\ resp.header.has_errordata /\ IsSendStep)
          => Len(net') = Len(net)]_vars

\* the handshake met one of the failures C6 names
HandshakeMetFailure ==
    \/ hs_resp.kind \in {"transport_error", "errordata"}
    \/ hs_resp.kind = "keyresponse" /\ hs_resp.scheme # "ASYMMETRIC_WRAPPED"
    \/ hs_resp.kind = "keyresponse" /\ hs_resp.encryptionkey.pub # keys.rsa
    \/ hs_resp.kind = "keyresponse" /\ hs_resp.hmackey.pub # keys.rsa

\* C6: a handshake that meets a transport error, errordata, another scheme
\* or an unwrap failure makes construction raise after exactly one handshake
\* request, and no client on which send_message can run results.
C6_HandshakeFailureIsFinal ==
    HandshakeMetFailure =>
        /\ phase = "Failed"
        /\ init_ret.kind = "raise"
        /\ Len(net) = 1
        /\ net[1].type = "handshake"
        /\ calls = 0
        /\ ~ENABLED (\E r \in AppResponses(keys) : SendMessage("ping", FALSE, r))

C6_Witness ==
    /\ phase = "Failed"
    /\ hs_resp.kind = "keyresponse"
    /\ hs_resp.scheme = "ASYMMETRIC_WRAPPED"
    /\ hs_resp.encryptionkey.pub = keys.rsa
    /\ hs_resp.hmackey.pub # keys.rsa
    /\ Len(net) = 1

C8_Original ==
    FailedBeforeResponse => message_id = entry.message_id /\ keys = entry.keys

\* C8 amended: such a call leaves the keys as they were and the message-id
\* counter exactly one above its value before the call.
C8_Amended ==
    FailedBeforeResponse => message_id = entry.message_id + 1 /\ keys = entry.keys

C8_Witness ==
    /\ calls > 0
    /\ ret.msg = "MSL message send failed"
    /\ resp.kind = "transport_error"
    /\ message_id = entry.message_id + 1

\* C9: send_message returns data only from payload chunks whose signature is
\* the HMAC of their payload under the client's signing key.
C9_OnlyVerifiedChunks ==
    (calls > 0 /\ ret.kind = "return" /\ decrypted) =>
        \A i \in 1..Len(resp.chunks) :
            resp.chunks[i].signature = Sign(B64Decode(resp.chunks[i].payload), keys.sign)

\* C10: a construction that finds a cached token with expiration - now below
\* 10 hours makes a handshake (and raises nothing for the staleness); with 10
\* hours or more it uses the cached keys and makes no handshake.
C10_FreshnessBoundary ==
    [][(/\ instances' = instances + 1
        /\ cache_path'
        /\ cache.kind = "record"
        /\ cache.mastertoken.kind = "token")
          => IF cache.mastertoken.expiration - now < MarginHours * SecondsPerHour
               THEN Len(net') = 1 /\ net'[1].type = "handshake"
               ELSE Len(net') = 0 /\ phase' = "Ready"
                    /\ keys'.mastertoken = cache.mastertoken]_vars

\* C11: a construction whose cache file holds a complete record with a token
\* the code judges fresh reaches Ready without a handshake: it posts nothing,
\* its keys and master token are exactly the cached ones, and the file stays.
C11_FreshCacheNoHandshake ==
    [][(/\ instances' = instances + 1
        /\ cache_path'
        /\ cache.kind = "record"
        /\ cache.mastertoken.kind = "token"
        /\ ~IsStale(cache.mastertoken.expiration, now, tz))
          => /\ phase' = "Ready"
             /\ init_ret'.kind = "return"
             /\ Len(net') = 0
             /\ used_ids' = <<>>
             /\ keys'.encryption = B64Decode(cache.encryption)
             /\ keys'.sign = B64Decode(cache.sign)
             /\ keys'.rsa = ImportKey(cache.rsa)
             /\ keys'.mastertoken = cache.mastertoken
             /\ cache' = cache]_vars

C11_Witness ==
    /\ phase = "Ready"
    /\ calls = 0
    /\ Len(net) = 0
    /\ cache.kind = "record"
    /\ keys.rsa = OldRsa
    /\ keys.encryption = "k3"
    /\ keys.mastertoken = cache.mastertoken

\* a cache file that is unreadable, unparseable or incomplete
Damaged(file) ==
    \/ file.kind \in {"unreadable", "corrupt"}
    \/ /\ file.kind = "record"
       /\ \/ file.fields # AllFields
          \/ file.encryption.form # "ok"
          \/ file.sign.form # "ok"
          \/ file.rsa.pem = 0
          \/ file.mastertoken.kind # "token"

\* C12: _load_cache returns None, and raises nothing, for every cache file
\* that is unreadable, unparseable or incomplete (missing field, bad base64,
\* bad key, token document without expiration).
C12_DamagedCacheIsAbsent ==
    (load_ret.kind # "unloaded" /\ Damaged(cache)) =>
        load_ret.kind = "return" /\ ~load_ret.keys.obj

\* C13: after _save_cache was interrupted at any point of its write, a
\* _load_cache on the file returns None or one complete key material: the
\* one the file held before or one a save wrote, no mix and no part of them.
C13_TornWriteNeverLoads ==
    (saved # {} /\ load_ret.kind # "unloaded") =>
        /\ load_ret.kind = "return"
        /\ load_ret.keys.obj => load_ret.keys \in saved
        /\ (load_ret.keys.obj \/ cache.kind = "record") => cache.fields = AllFields

C13_Witness ==
    /\ saved = Materials
    /\ cache.kind = "corrupt"
    /\ cache.fields = {"encryption", "sign"}
    /\ cache.encryption = B64Encode("k3")
    /\ load_ret.kind = "return"
    /\ ~load_ret.keys.obj

\* the callers whose message is sent and not yet answered
InFlight == {c \in Callers : pc[c] = "wait"}

\* C14: at any time at most one application message of the client is in
\* flight, also when several callers run send_message at once.
C14_OneInFlight == Cardinality(InFlight) <= 1

\* C15: the messages sent by interleaving send_message calls carry distinct
\* message ids, and in each the payload chunk's messageid is the header's.
C15_InterleavedIdsDistinct ==
    /\ \A i, j \in 1..Len(net) : i # j => net[i].messageid # net[j].messageid
    /\ \A i \in 1..Len(net) : net[i].payload_messageid = net[i].messageid

\* C16: in every message built by _handshake or send_message, the payload
\* chunks all carry the header's messageid, their sequence numbers start at 1
\* and strictly increase, and the last chunk, and only it, ends the message.
C16_ChunksNumberedFromOne ==
    \A i \in 1..Len(net) :
        LET ch == net[i].chunks
        IN  /\ Len(ch) >= 1
            /\ ch[1].sequencenumber = 1
            /\ \A j \in 1..Len(ch) :
                  /\ ch[j].messageid = net[i].messageid
                  /\ ch[j].endofmsg <=> j = Len(ch)
                  /\ \A l \in 1..Len(ch) :
                        j < l => ch[j].sequencenumber < ch[l].sequencenumber

C16_Witness ==
    /\ Len(net) = 3
    /\ net[1].type = "handshake"
    /\ net[1].chunks = <<ChunkInfo(seed, 1, TRUE)>>
    /\ net[3].type = "app"
    /\ net[3].chunks = <<ChunkInfo(seed + 2, 1, TRUE)>>

\* the text the payload objects of the last response decode to
LastRaw == RawData(resp.chunks, keys.encryption, 1, <<>>)

\* the last call met a response without errordata whose payload objects
\* decode to a JSON object
DecodedDocument ==
    /\ calls > 0
    /\ resp.kind = "parsed"
    /\ ~resp.header.has_errordata
    /\ resp.chunks # <<>>
    /\ LastRaw.ok
    /\ JsonOk(LastRaw.text)

SurfacedErrordata ==
    /\ calls > 0
    /\ resp.kind = "parsed"
    /\ resp.header.has_errordata
    /\ resp.header.errordata.decodes

\* the texts an error raised by send_message carries: its fixed message and
\* what was formatted into it
ErrorTexts(r) == {r.msg, r.detail}

\* C18: the error send_message raises for a response carrying errordata
\* holds the server's error code as it was sent.
C18_ErrorCodePreserved ==
    SurfacedErrordata =>
        /\ ret.kind = "raise"
        /\ ToString(resp.header.errordata.errorcode) \in ErrorTexts(ret)

\* which of the four failures the last send_message call met, if any
LastOutcome ==
    IF calls = 0 \/ ret.kind # "raise" THEN None
    ELSE IF args.include_user_auth /\ IdentityCookieMissing(cookies) THEN "cookies"
    ELSE IF resp.kind = "transport_error" THEN "transport"
    ELSE IF SurfacedErrordata THEN "protocol"
    ELSE IF DecodedDocument /\ "error" \in JsonKeys(LastRaw.text) THEN "application"
    ELSE None

\* C19: the kind of error raised for an error object inside a decrypted
\* document differs from the kinds raised for errordata, for a network
\* failure and for missing cookies: two calls on a client that fail in
\* different ones of the four ways raise errors of different kinds.
C19_ErrorKindsDistinct ==
    [][(/\ IsSendStep
        /\ LastOutcome # None
        /\ LastOutcome' # None
        /\ LastOutcome # LastOutcome')
          => ret.type # ret'.type]_vars

\* C20: decrypting what _encrypt produced, with the same key and the iv in
\* the envelope, gives the plaintext back, whatever plaintext, key and iv;
\* and the payload object send_message builds for a datum decodes to it.
C20_EncryptDecryptRoundTrip ==
    /\ codec.stage = "decrypted" => codec.out = Unpadded(TRUE, codec.plaintext)
    /\ codec.chunk_stage = "decoded" => codec.text = ChunkText(TRUE, None, codec.data)

C20_Witness ==
    /\ codec.stage = "decrypted"
    /\ Len(codec.plaintext) = BlockSize
    /\ codec.plaintext[BlockSize] = BlockSize
    /\ Len(B64Decode(codec.envelope.ciphertext)) = 2 * BlockSize
    /\ B64Decode(codec.envelope.ciphertext) # Pad(codec.plaintext)
    /\ codec.out.bytes = codec.plaintext
    /\ codec.chunk_stage = "decoded"
    /\ codec.text.text = "ping"

\* C21: _base64key_decode appends "==" to a string whose length mod 4 is 2,
\* "=" when it is 3 and nothing when it is 0, so what it decodes has a length
\* that is a multiple of 4; when it is 1 it raises ValueError and decodes
\* nothing.
C21_Base64KeyPadding ==
    codec.key_stage = "decoded" =>
        LET n   == codec.key_text.chars
            out == codec.key_out
        IN  /\ n % 4 = 2 => out.kind = "return" /\ out.padding = "=="
            /\ n % 4 = 3 => out.kind = "return" /\ out.padding = "="
            /\ n % 4 = 0 => out.kind = "return" /\ out.padding = ""
            /\ n % 4 # 1 => /\ out.chars % 4 = 0
                            /\ out.chars - n \in 0..2
                            /\ out.bytes = codec.key_text.bytes
            /\ n % 4 = 1 => /\ out.kind = "raise"
                            /\ out.type = "ValueError"
                            /\ out.bytes = None

C21_Witness ==
    /\ codec.key_stage = "decoded"
    /\ codec.key_text.chars = 22
    /\ codec.key_out.padding = "=="
    /\ codec.key_out.chars = 24
    /\ codec.key_out.bytes = "k1"


\* C22: a send_message call performs no handshake, leaves the cache file and
\* the client's keys and master token as they were, and whatever it builds or
\* posts is an application message under the master token the client held
\* when the call began.
C22_KeysFixedAfterConstruction ==
    [][IsSendStep =>
          /\ keys' = keys
          /\ cache' = cache
          /\ hs_resp' = hs_resp
          /\ phase' = phase
          /\ msg' # NoMessage => msg'[1].mastertoken = keys.mastertoken
          /\ \A i \in (Len(net) + 1)..Len(net') :
                net'[i].type = "app" /\ net'[i].mastertoken = keys.mastertoken]_vars

C22_Witness ==
    /\ calls = 2
    /\ Len(net) = 3
    /\ net[1].type = "handshake"
    /\ keys = entry.keys
    /\ net[2].mastertoken = keys.mastertoken
    /\ net[3].mastertoken = keys.mastertoken

\* an HMAC under the signing key of exactly the encrypted string sent
SignedAfterEncrypt(signature, sent, k) ==
    LET mac      == B64Decode(signature)
        envelope == B64Decode(sent)
    IN  /\ mac.hmac = k.sign
        /\ mac.over = envelope
        /\ DecryptOk(envelope, k.encryption)
        /\ mac.over # Decrypt(envelope)

\* C23: in every message send_message builds, the header signature is the HMAC
\* under the signing key of exactly the encrypted header whose base64 is the
\* headerdata, the payload signature is the HMAC of exactly the encrypted chunk
\* whose base64 is the payload, and neither is an HMAC of the plaintext.
C23_SignAfterEncrypt ==
    (calls > 0 /\ msg # NoMessage) =>
        /\ SignedAfterEncrypt(msg[1].signature, msg[1].headerdata, keys)
        /\ SignedAfterEncrypt(msg[2].signature, msg[2].payload, keys)
        /\ Decrypt(B64Decode(msg[1].headerdata)).messageid = message_id
        /\ Decrypt(B64Decode(msg[2].payload)).messageid = message_id

C23_Witness ==
    /\ calls > 0
    /\ Len(net) > 0
    /\ net[Len(net)].type = "app"
    /\ msg # NoMessage
    /\ B64Decode(msg[1].signature).over = B64Decode(msg[1].headerdata)
    /\ B64Decode(msg[2].signature).over = B64Decode(msg[2].payload)

\* C24: every handshake request has a header that is base64 of plain JSON
\* with handshake true and one key-exchange request for the client's public
\* key, no user-authentication data whatever cookies the client holds, empty
\* header and payload signatures, and exactly one payload chunk with empty
\* data, sequence number 1 and end-of-message set.
C24_HandshakeRequestShape ==
    \A i \in 1..Len(net) :
        net[i].type = "handshake" =>
            LET m  == net[i].message
                h  == B64Decode(m[1].headerdata)
                pl == B64Decode(m[2].payload)
            IN  /\ Len(m) = 2
                /\ "ciphertext" \notin DOMAIN h
                /\ h.handshake = TRUE
                /\ h.messageid = seed
                /\ Len(h.keyrequestdata) = 1
                /\ h.keyrequestdata[1].scheme = "ASYMMETRIC_WRAPPED"
                /\ B64Decode(h.keyrequestdata[1].publickey) = instances
                /\ h.userauthdata = NoUserAuth
                /\ m[1].entityauthdata = "NONE"
                /\ m[1].signature = ""
                /\ m[2].signature = ""
                /\ "ciphertext" \notin DOMAIN pl
                /\ pl.messageid = seed
                /\ pl.data = ""
                /\ pl.sequencenumber = 1
                /\ pl.endofmsg = TRUE

C24_Witness ==
    /\ phase = "Ready"
    /\ Len(net) = 1
    /\ net[1].type = "handshake"
    /\ ~CookiesMissing(cookies)
    /\ B64Decode(net[1].message[1].headerdata).userauthdata = NoUserAuth
    /\ B64Decode(net[1].message[2].payload).endofmsg

\* C25: every get_manifest call is a send_message call on the manifest
\* request with user authentication required; on a client lacking an identity
\* cookie it ends in the cookies-not-found error with nothing built and
\* nothing posted, whatever the viewable id and the profile list, and what it
\* posts on any other client carries the client's identity cookies.
C25_ManifestRequiresUserAuth ==
    calls > 0 =>
        /\ args.include_user_auth = TRUE
        /\ args.application_data.url = "/manifest"
        /\ IdentityCookieMissing(cookies) =>
              /\ ret = Raised("Exception", "Netflix authentication cookies not found")
              /\ msg = NoMessage
              /\ net = <<>>
        /\ msg # NoMessage =>
              /\ ~IdentityCookieMissing(cookies)
              /\ Decrypt(B64Decode(msg[1].headerdata)).userauthdata = UserAuth(cookies)

C25_Witness ==
    /\ calls = MaxCalls
    /\ IdentityCookieMissing(cookies)
    /\ args.application_data.viewableId = "81215567"
    /\ args.application_data.profiles = <<"heaac-2-dash">>
    /\ ret.kind = "raise"
    /\ net = <<>>

\* C26: whenever construction has returned, the client's keys are an object
\* whose encryption key, signing key, private key and master token have all
\* been assigned; send_message runs, builds and posts only on such a client,
\* never on one whose handshake raised with part of the keys assigned.
C26_KeysExistBeforeSend ==
    /\ phase = "Ready" =>
          /\ keys.obj
          /\ keys.encryption # None
          /\ keys.sign # None
          /\ keys.rsa # 0
          /\ keys.mastertoken # NoToken
    /\ phase = "Failed" =>
          /\ calls = 0
          /\ msg = NoMessage
          /\ \A i \in 1..Len(net) : net[i].type = "handshake"
    /\ \A i \in 1..Len(net) :
          net[i].type = "app" => phase = "Ready" /\ net[i].mastertoken = keys.mastertoken

C26_Witness ==
    /\ phase = "Ready"
    /\ hs_resp.kind = "keyresponse"
    /\ calls > 0
    /\ Len(net) = 2
    /\ net[2].type = "app"
    /\ keys.encryption = "k1"
    /\ keys.sign = "k2"
    /\ keys.mastertoken = hs_resp.mastertoken

\* C27: a construction with a cache location whose file was written by the
\* successful handshake of an earlier client, at a time when the cached token
\* still has more than 10 hours to its expiration, makes no handshake and
\* holds exactly the encryption key, signing key, private key and master
\* token that were written.
C27_PersistRestoreRoundTrip ==
    [][(/\ instances' = instances + 1
        /\ cache_path'
        /\ cache.kind = "record"
        /\ cache.rsa.pem \in 1..instances
        /\ cache.mastertoken.kind = "token"
        /\ cache.mastertoken.expiration - now > MarginHours * SecondsPerHour)
          => /\ phase' = "Ready"
             /\ Len(net') = 0
             /\ CacheRecord(keys') = cache
             /\ cache' = cache]_vars

\* C28: what a _load_cache call returns for a cache file at an instant is
\* what it would return for that file at that instant under every other UTC
\* offset of the host: the freshness decision is a function of the token's
\* expiration and the epoch time alone.
C28_FreshnessIgnoresUtcOffset ==
    [][(/\ load_ret'.kind # "unloaded"
        /\ cache' = cache
        /\ now' = now)
          => \A offset \in Offsets :
                LoadCacheCall(TRUE, cache, now, offset) = load_ret']_vars

\* C29: every message id a handshake or application message carries, in its
\* header and in its payload chunk, is at least 0 and below 2^52 (2^IdBits
\* here), for every seed and after any number of send_message calls.
C29_IdsWithin52Bits ==
    /\ \A i \in 1..Len(net) :
          /\ 0 <= net[i].messageid /\ net[i].messageid < 2 ^ IdBits
          /\ 0 <= net[i].payload_messageid /\ net[i].payload_messageid < 2 ^ IdBits
    /\ \A i \in 1..Len(used_ids) : 0 <= used_ids[i] /\ used_ids[i] < 2 ^ IdBits

\* C30: a send_message call made after a call that ended in an application
\* error, a transport error or the cookies-not-found error finds the client
\* Ready with the keys it had before the failed call, uses a larger message
\* id, and, unless it lacks the cookies it asks for itself, builds a message
\* signed under those keys and posts it with that id and the same master token.
C30_ErrorsLeaveClientReady ==
    [][(IsSendStep /\ LastOutcome \in {"application", "transport", "cookies"}) =>
          /\ phase = "Ready" /\ phase' = "Ready"
          /\ keys = entry.keys /\ keys' = keys
          /\ message_id' > message_id
          /\ (/\ ~(args'.include_user_auth /\ IdentityCookieMissing(cookies))
              /\ keys.mastertoken.kind = "token")
                => /\ Len(net') = Len(net) + 1
                   /\ net'[Len(net')].type = "app"
                   /\ net'[Len(net')].messageid = message_id'
                   /\ net'[Len(net')].mastertoken = keys.mastertoken
                   /\ B64Decode(msg'[1].signature).hmac = keys.sign
                   /\ DecryptOk(B64Decode(msg'[2].payload), keys.encryption)]_vars

C30_Witness ==
    /\ calls = 2
    /\ Len(net) = 2
    /\ net[1].type = "handshake"
    /\ net[2].type = "app"
    /\ net[2].messageid = seed + 2
    /\ ~args.include_user_auth
    /\ IdentityCookieMissing(cookies)
    /\ keys = entry.keys
    /\ ret.kind = "return"

\* the response text was received
Received == codec.wire_stage = "done"

\* what the endpoint put into payload object i: its flag, and its data as bytes
ServedPlain(i) == Decrypt(B64Decode(codec.served[i].payload))
ServedData(i)  == B64Decode(ServedPlain(i).data)

\* the header object the endpoint sent, and whether it names errordata
ServedHeader == SubSeq(codec.r_text, 1, Len(codec.r_text) - 5 * Len(codec.served))
ServedErrordata == \E i \in 1..Len(ServedHeader) : ServedHeader[i] = "errordata"

\* payload object i is gzipped exactly if it is flagged GZIP
WellFormed(i) == ServedData(i).gzip <=> (ServedPlain(i).compressionalgo = "GZIP")

\* the data strings of payload objects 1..n, one after the other
RECURSIVE ServedConcat(_)
ServedConcat(n) == IF n = 0 THEN <<>> ELSE ServedConcat(n - 1) \o ServedData(n).text

NoCommas(text) == SelectSeq(text, LAMBDA c : c # ",")

\* C31: a response text made of a header object followed by n >= 1 payload
\* objects with nothing between them is split into n + 1 objects: the header
\* first, then the n payload objects in wire order; and the document the call
\* returns is the one parsed from the n data strings concatenated in that order.
C31_ResponseSplitInWireOrder ==
    (Received /\ Len(codec.served) >= 1) =>
        LET n    == Len(codec.served)
            objs == codec.parsed_message.objects
        IN  /\ codec.parsed_message.ok
            /\ Len(objs) = n + 1
            /\ NoCommas(objs[1]) = ServedHeader
            /\ \A i \in 1..n : objs[i + 1] = PayloadObject(i)
            /\ (~ServedErrordata /\ \A i \in 1..n : WellFormed(i)) =>
                  /\ codec.wire_ret.decrypted
                  /\ codec.wire_ret.ret.kind = "return"
                  /\ codec.wire_ret.ret.value.doc = JsonKeys(ServedConcat(n))
                  /\ ServedConcat(n) = Document

C31_Witness ==
    /\ Received
    /\ Len(codec.served) = MaxChunks
    /\ Len(ServedHeader) > 5
    /\ \A i \in 1..MaxChunks : WellFormed(i) /\ ServedData(i).text # <<>>
    /\ Len(codec.parsed_message.objects) = MaxChunks + 1
    /\ codec.wire_ret.ret = Returned(Value("result", {"result"}))

\* C32: each payload object is gunzipped exactly when it carries
\* compressionalgo GZIP and its data is used as is when it carries no flag,
\* object by object, also in a response that mixes the two: a response whose
\* objects are all gzipped exactly where flagged gives its document; the first
\* object flagged but not gzipped ends the call in zlib's error, the first one
\* gzipped but not flagged in the error of decoding gzip bytes as text.  The
\* payload object send_message builds is gzipped and flagged GZIP.
C32_GunzipDrivenByFlag ==
    /\ (Received /\ Len(codec.served) >= 1 /\ ~ServedErrordata) =>
          LET n   == Len(codec.served)
              bad == {i \in 1..n : ~WellFormed(i)}
          IN  IF bad = {}
                THEN codec.wire_ret.ret = Returned(Value("result", JsonKeys(Document)))
                ELSE LET first == CHOOSE i \in bad : \A j \in bad : i <= j
                     IN  /\ codec.wire_ret.ret.kind = "raise"
                         /\ codec.wire_ret.ret.type =
                               IF ServedPlain(first).compressionalgo = "GZIP"
                                 THEN "zlib.error" ELSE "UnicodeDecodeError"
    /\ codec.chunk_stage = "built" =>
          LET plain == Decrypt(B64Decode(codec.chunk.payload))
          IN  /\ plain.compressionalgo = "GZIP"
              /\ B64Decode(plain.data).gzip
              /\ B64Decode(plain.data).text = codec.data

C32_Witness ==
    /\ Received
    /\ codec.chunk_stage = "built"
    /\ Len(codec.served) = 2
    /\ ServedPlain(1).compressionalgo = "GZIP"
    /\ ServedPlain(2).compressionalgo = None
    /\ WellFormed(1)
    /\ WellFormed(2)
    /\ codec.wire_ret.ret.kind = "return"

\* C33: a construction uses a cached token only if its expiration lies more
\* than 10 hours after the current time; a token with exactly 10 hours left
\* is judged stale and a handshake is made.
C33_ExactlyTenHoursIsStale ==
    [][(/\ instances' = instances + 1
        /\ cache_path'
        /\ cache.kind = "record"
        /\ cache.mastertoken.kind = "token")
          => /\ Len(net') = 0 =>
                   cache.mastertoken.expiration - now > MarginHours * SecondsPerHour
             /\ cache.mastertoken.expiration - now = MarginHours * SecondsPerHour =>
                   Len(net') = 1 /\ net'[1].type = "handshake"]_vars

\* C34: a response text that is one header object without errordata and no
\* payload object makes send_message return an empty object: the list parsed
\* has the header alone, _decrypt_payload_chunks is not called, nothing is raised.
C34_BareHeaderReturnsEmpty ==
    (Received /\ codec.served = <<>> /\ ~ServedErrordata) =>
        /\ codec.parsed_message.ok
        /\ Len(codec.parsed_message.objects) = 1
        /\ codec.wire_ret.ret = Returned(Value("empty", {}))
        /\ ~codec.wire_ret.decrypted

C34_Witness ==
    /\ Received
    /\ codec.served = <<>>
    /\ codec.r_text = ServedHeader
    /\ Len(ServedHeader) > 5
    /\ ~ServedErrordata
    /\ codec.wire_ret.ret.kind = "return"
    /\ codec.wire_ret.ret.value.doc = {}

=============================================================================
